---- MODULE Spec2Model ----
(***************************************************************************)
(* A model of govuk_checker.py (the GOV.UK style and content checker) and  *)
(* of its Streamlit front end govuk_checker_app.py.                         *)
(*                                                                         *)
(* Text is modelled by TLA+ strings, character by character: str.strip,    *)
(* str.split, str.endswith, the `in` operator and every regular expression *)
(* of the source are operators over the characters of a string.  A parsed  *)
(* markup document (the BeautifulSoup tree) is the sequence of its nodes   *)
(* in document order, each with the index of its parent (0: the document). *)
(* A parsed .docx is the sequence of its paragraphs, each with a style     *)
(* name and its runs.  Findings are the very strings the code builds.      *)
(*                                                                         *)
(* TLA+ strings hold ASCII only: the character "~" stands for U+2019, the  *)
(* typographic apostrophe of the negative-contraction pattern.  Like       *)
(* U+2019 it is neither a word character nor white space.                  *)
(***************************************************************************)
EXTENDS Integers, Sequences, FiniteSets, TLC

VARIABLES
    files,      \* the paths for which os.path.isfile is true
    soup,       \* the parsed content of the markup files
    paras,      \* the parsed content (doc.paragraphs) of the .docx files
    appHash,    \* the string-hash order of the running Streamlit process
    last,       \* the latest run: what was called, returned and shown
    prev        \* the run before it

vars == <<files, soup, paras, appHash, last, prev>>

----------------------------------------------------------------------------
(* Characters and the str methods the checker uses.                        *)

Ch(s, i) == SubSeq(s, i, i)

UpperLetters == "ABCDEFGHIJKLMNOPQRSTUVWXYZ"
LowerLetters == "abcdefghijklmnopqrstuvwxyz"
DigitChars == "0123456789"

UpperSet == {Ch(UpperLetters, i) : i \in 1..Len(UpperLetters)}
LowerSet == {Ch(LowerLetters, i) : i \in 1..Len(LowerLetters)}
DigitSet == {Ch(DigitChars, i) : i \in 1..Len(DigitChars)}

\* str.isspace for one character: what str.strip() removes, str.split()
\* splits at, and \s matches.
WhiteSpace == {" ", "\t", "\n", "\r", "\f"}
IsSpace(c) == c \in WhiteSpace

\* \w of the re module: letters, digits and the underscore.
IsWordChar(c) == c \in UpperSet \cup LowerSet \cup DigitSet \cup {"_"}

\* str.isupper() of a one-character string.
IsUpper(c) == c \in UpperSet

ToLowerMap ==
    [c \in UpperSet |->
        Ch(LowerLetters, CHOOSE i \in 1..Len(UpperLetters) : Ch(UpperLetters, i) = c)]

\* str.lower() of one character (the folding re.IGNORECASE does on ASCII).
ToLower(c) == IF c \in UpperSet THEN ToLowerMap[c] ELSE c

\* str.lower(), by halves.
RECURSIVE Lower(_)
Lower(s) ==
    IF Len(s) = 0 THEN ""
    ELSE IF Len(s) = 1 THEN ToLower(s)
    ELSE Lower(SubSeq(s, 1, Len(s) \div 2)) \o Lower(SubSeq(s, Len(s) \div 2 + 1, Len(s)))

SetMin(S) == CHOOSE x \in S : \A y \in S : x <= y
SetMax(S) == CHOOSE x \in S : \A y \in S : x >= y

\* str.strip(): the string without its leading and trailing white space.
Strip(s) ==
    LET ns == {i \in 1..Len(s) : ~IsSpace(Ch(s, i))}
    IN  IF ns = {} THEN "" ELSE SubSeq(s, SetMin(ns), SetMax(ns))

\* str.endswith / str.startswith.
EndsWith(s, suf) ==
    Len(s) >= Len(suf) /\ SubSeq(s, Len(s) - Len(suf) + 1, Len(s)) = suf
StartsWith(s, pre) ==
    Len(s) >= Len(pre) /\ SubSeq(s, 1, Len(pre)) = pre

\* `sub in s`.
Contains(s, sub) ==
    \E i \in 1..(Len(s) - Len(sub) + 1) : SubSeq(s, i, i + Len(sub) - 1) = sub

\* len(s.split()): the number of maximal runs of non-space characters.
WordCount(s) ==
    Cardinality({i \in 1..Len(s) :
        /\ ~IsSpace(Ch(s, i))
        /\ (i = 1 \/ IsSpace(Ch(s, i - 1)))})

\* "sep".join(strs).
RECURSIVE Join(_, _)
Join(strs, sep) ==
    IF Len(strs) = 0 THEN ""
    ELSE IF Len(strs) = 1 THEN strs[1]
    ELSE strs[1] \o sep \o Join(Tail(strs), sep)

RECURSIVE Flatten(_)
Flatten(seqs) == IF Len(seqs) = 0 THEN <<>> ELSE seqs[1] \o Flatten(Tail(seqs))

----------------------------------------------------------------------------
(* The regular expressions of the source.  A position p of s, 1..Len(s)+1, *)
(* is the place before character p.                                        *)

WordAt(s, p) == p >= 1 /\ p <= Len(s) /\ IsWordChar(Ch(s, p))

\* \b at position p: a word character on exactly one side.
Boundary(s, p) == WordAt(s, p - 1) # WordAt(s, p)

\* The literal w matches at p.
LitAt(s, p, w) ==
    p >= 1 /\ p + Len(w) - 1 <= Len(s) /\ SubSeq(s, p, p + Len(w) - 1) = w

\* \bw\b matches at p.
WholeWordAt(s, p, w) ==
    Boundary(s, p) /\ LitAt(s, p, w) /\ Boundary(s, p + Len(w))

\* re.search(r"\bw\b", s, re.IGNORECASE) finds a match: the pattern and the
\* text are compared with their case folded.
SearchWord(s, w) ==
    LET folded == Lower(s)
        word == Lower(w)
    IN  \E p \in 1..Len(s) : WholeWordAt(folded, p, word)

ActiveVerbs ==
    <<"work", "read", "learn", "report", "check", "view", "explore",
      "download", "submit", "apply", "contact", "visit">>

\* re.search(r"\b(work|read|...|visit)\b", s, re.IGNORECASE) finds a match.
SearchActiveVerb(s) ==
    \E k \in 1..Len(ActiveVerbs) : SearchWord(s, ActiveVerbs[k])

NegContractions ==
    <<"don~t", "doesn~t", "didn~t", "can~t", "won~t", "wouldn~t", "shouldn~t",
      "couldn~t", "isn~t", "aren~t", "wasn~t", "weren~t", "haven~t", "hasn~t",
      "hadn~t", "mustn~t", "mightn~t", "needn~t">>

\* The alternative of the contraction pattern that matches at p of the
\* case-folded text (0: none).
NegContractionAt(folded, p) ==
    LET ms == {k \in 1..Len(NegContractions) :
                   WholeWordAt(folded, p, NegContractions[k])}
    IN  IF ms = {} THEN 0 ELSE SetMin(ms)

\* re.findall(r"\b(?:don~t|...|needn~t)\b", s, re.IGNORECASE) from position
\* `from` on: the matched texts, left to right, without overlap.
RECURSIVE FindNegContractions(_, _)
FindNegContractions(s, from) ==
    LET folded == Lower(s)
        ps == {p \in from..Len(s) : NegContractionAt(folded, p) # 0}
    IN  IF ps = {} THEN <<>>
        ELSE LET p == SetMin(ps)
                 n == Len(NegContractions[NegContractionAt(folded, p)])
             IN  <<SubSeq(s, p, p + n - 1)>> \o FindNegContractions(s, p + n)

\* The first position from p on that holds no white space (Len(s)+1 if none).
SpaceRunEnd(s, p) ==
    SetMin({e \in p..(Len(s) + 1) : e = Len(s) + 1 \/ ~IsSpace(Ch(s, e))})

\* re.split(r'(?<=[.!?])\s+', s): the piece that starts at `start` and the
\* pieces after it.
RECURSIVE SplitSentences(_, _)
SplitSentences(s, start) ==
    LET ps == {p \in start..Len(s) :
                   p > 1 /\ Ch(s, p - 1) \in {".", "!", "?"} /\ IsSpace(Ch(s, p))}
    IN  IF ps = {} THEN <<SubSeq(s, start, Len(s))>>
        ELSE <<SubSeq(s, start, SetMin(ps) - 1)>>
                 \o SplitSentences(s, SpaceRunEnd(s, SetMin(ps)))

\* The first position from p on that holds no upper-case letter.
UpperRunEnd(s, p) ==
    SetMin({e \in p..(Len(s) + 1) : e = Len(s) + 1 \/ ~IsUpper(Ch(s, e))})

MinAcronymLen == 2

\* \b[A-Z]{2,}\b matches at p (then up to UpperRunEnd(s, p)).
AcronymAt(s, p) ==
    /\ Boundary(s, p)
    /\ IsUpper(Ch(s, p))
    /\ UpperRunEnd(s, p) - p >= MinAcronymLen
    /\ Boundary(s, UpperRunEnd(s, p))

\* re.findall(r"\b[A-Z]{2,}\b", s) from position `from` on.
RECURSIVE FindAcronyms(_, _)
FindAcronyms(s, from) ==
    LET ps == {p \in from..Len(s) : AcronymAt(s, p)}
    IN  IF ps = {} THEN <<>>
        ELSE <<SubSeq(s, SetMin(ps), UpperRunEnd(s, SetMin(ps)) - 1)>>
                 \o FindAcronyms(s, UpperRunEnd(s, SetMin(ps)))

Range(f) == {f[i] : i \in DOMAIN f}

\* re.search(rf"\b{acronym} \([^)]+\)", s) finds a match: the acronym at a
\* word boundary, a space, "(", one or more characters other than ")", ")".
SearchExpansion(s, acronym) ==
    \E p \in 1..Len(s) :
        /\ Boundary(s, p)
        /\ LitAt(s, p, acronym \o " (")
        /\ LET j == p + Len(acronym) + 2
           IN  /\ j <= Len(s)
               /\ Ch(s, j) # ")"
               /\ \E k \in (j + 1)..Len(s) : Ch(s, k) = ")"

Months ==
    <<"January", "February", "March", "April", "May", "June", "July",
      "August", "September", "October", "November", "December">>

DigitsAt(s, p, n) ==
    p >= 1 /\ p + n - 1 <= Len(s) /\ \A i \in p..(p + n - 1) : Ch(s, i) \in DigitSet

MaxDayDigits == 2
YearDigits == 4

\* re.search(r"\b\d{1,2} (January|...|December) \d{4}\b", s) finds a match.
SearchDate(s) ==
    \E p \in 1..Len(s) : \E n \in 1..MaxDayDigits : \E m \in 1..Len(Months) :
        LET q == p + n + 1 + Len(Months[m])
        IN  /\ Boundary(s, p)
            /\ DigitsAt(s, p, n)
            /\ LitAt(s, p + n, " ")
            /\ LitAt(s, p + n + 1, Months[m])
            /\ LitAt(s, q, " ")
            /\ DigitsAt(s, q + 1, YearDigits)
            /\ Boundary(s, q + 1 + YearDigits)

\* re.search(r"\s-\s", s) finds a match.
SearchSpacedHyphen(s) ==
    \E p \in 1..(Len(s) - 2) :
        IsSpace(Ch(s, p)) /\ Ch(s, p + 1) = "-" /\ IsSpace(Ch(s, p + 2))

----------------------------------------------------------------------------
(* The parsed markup: BeautifulSoup's tree, by document order.             *)

TextTag == "#text"

\* Node i lies inside element a (a = 0: the whole document).
RECURSIVE IsUnder(_, _, _)
IsUnder(tree, i, a) ==
    \/ a = 0
    \/ /\ i > a
       /\ \/ tree[i].parent = a
          \/ tree[i].parent > a /\ IsUnder(tree, tree[i].parent, a)

\* element.get_text(separator=sep, strip=strip): the strings inside a, each
\* stripped and dropped if empty when strip, joined by sep.
get_text(tree, a, sep, strip) ==
    Join(Flatten([i \in 1..Len(tree) |->
            IF tree[i].tag = TextTag /\ IsUnder(tree, i, a)
            THEN IF ~strip THEN <<tree[i].str>>
                 ELSE IF Strip(tree[i].str) = "" THEN <<>>
                 ELSE <<Strip(tree[i].str)>>
            ELSE <<>>]), sep)

\* soup.find_all(tags): the elements with one of the tags, in document order.
find_all(tree, tags) ==
    Flatten([i \in 1..Len(tree) |-> IF tree[i].tag \in tags THEN <<i>> ELSE <<>>])

\* tag.get(name, default).
GetAttr(node, name, default) ==
    IF \E kv \in node.attrs : kv[1] = name
    THEN (CHOOSE kv \in node.attrs : kv[1] = name)[2]
    ELSE default

\* The text nodes before element u, by index: ul.find_previous(string=True)
\* is the last of them, and None when there is none.
StringsBefore(tree, u) == {j \in 1..(u - 1) : tree[j].tag = TextTag}

\* table.find("a") is not None.
HasDescendant(tree, a, tag) ==
    \E i \in 1..Len(tree) : tree[i].tag = tag /\ IsUnder(tree, i, a)

----------------------------------------------------------------------------
(* The checks.  Each yields the findings it appends, in order.             *)

If(cond, finding) == IF cond THEN <<finding>> ELSE <<>>

\* bp.strip()[0] of a bullet text that is not empty but strips to nothing:
\* an index into the empty string, IndexError.
BulletRaises(bp) == bp # "" /\ Strip(bp) = ""

\* The body of the markup bullet loop for one list item text.
BulletCheck(bp) ==
    If(~EndsWith(Strip(bp), "."),
       "BULLET: Does not end with a full stop: '" \o Strip(bp) \o "'")
    \o If(bp # "" /\ ~IsUpper(Ch(Strip(bp), 1)),
          "BULLET: Does not begin with a capital letter: '" \o Strip(bp) \o "'")

\* The body of the .docx bullet loop for one paragraph text.
DocxBulletCheck(paratext) ==
    LET bp == Strip(paratext)
    IN  If(~EndsWith(bp, "."),
           "BULLET: Does not end with a full stop: '" \o bp \o "'")
        \o If(bp # "" /\ ~IsUpper(Ch(bp, 1)),
              "BULLET: Does not begin with a capital letter: '" \o bp \o "'")

LeadInCheck(tree, ul) ==
    LET before == StringsBefore(tree, ul)
    IN  If(\/ before = {}
           \/ tree[SetMax(before)].str = ""
           \/ ~EndsWith(Strip(tree[SetMax(before)].str), ":"),
           "BULLET: List may be missing a lead-in sentence.")

\* The "please" check without re.IGNORECASE.
PleaseCheck_CaseSensitive(text) ==
    If(\E p \in 1..Len(text) : WholeWordAt(text, p, "please"),
       "LANGUAGE: Found instance of the word 'please'.")

PleaseCheck(text) ==
    If(SearchWord(text, "please"), "LANGUAGE: Found instance of the word 'please'.")

NegContractionCheck(text) ==
    LET neg_contr == FindNegContractions(text, 1)
    IN  [k \in DOMAIN neg_contr |->
            "LANGUAGE: Found negative contraction: '" \o neg_contr[k] \o "'"]

DirectionalCheck(text) ==
    LET finding(word) ==
            If(SearchWord(text, word),
               "LANGUAGE: Found use of the word '" \o word \o "'.")
    IN  finding("above") \o finding("below")

MaxSentenceWords == 26

SentenceCheck(text) ==
    LET sentences == SplitSentences(text, 1)
    IN  Flatten([k \in DOMAIN sentences |->
            If(WordCount(sentences[k]) > MaxSentenceWords,
               "LANGUAGE: Long sentence (>26 words): '" \o Strip(sentences[k]) \o "'")])

\* The anchor loop with the second test as an elif of the first.
LinkCheck_Elif(tree, a) ==
    LET link_text == Strip(get_text(tree, a, "", FALSE))
    IN  IF WordCount(link_text) = 1
        THEN <<"LINK: Link text is only one word: '" \o link_text \o "'">>
        ELSE If(~SearchActiveVerb(link_text),
                "LINK: Link text may not be descriptive or active: '" \o link_text \o "'")

\* The body of the anchor loop for one anchor.
LinkCheck(tree, a) ==
    LET link_text == Strip(get_text(tree, a, "", FALSE))
    IN  If(WordCount(link_text) = 1,
           "LINK: Link text is only one word: '" \o link_text \o "'")
        \o If(~SearchActiveVerb(link_text),
              "LINK: Link text may not be descriptive or active: '" \o link_text \o "'")

\* The image loop testing `img.get("alt") is None` for `not alt_text`.
ImageCheck_AbsentOnly(tree, text, img) ==
    LET alt_text == GetAttr(tree[img], "alt", "")
    IN  If(~\E kv \in tree[img].attrs : kv[1] = "alt",
           "IMAGE: Image found without alt text.")
        \o If(alt_text # "" /\ ~Contains(text, alt_text),
              "IMAGE: Alt text not described in body: '" \o alt_text \o "'")

\* The body of the image loop for one image.
ImageCheck(tree, text, img) ==
    LET alt_text == GetAttr(tree[img], "alt", "")
    IN  If(alt_text = "", "IMAGE: Image found without alt text.")
        \o If(alt_text # "" /\ ~Contains(text, alt_text),
              "IMAGE: Alt text not described in body: '" \o alt_text \o "'")

TableCellCheck(tree, td) ==
    If(get_text(tree, td, "", TRUE) = "",
       "TABLE: Empty table cell found. Should be marked as 'no data' or 'not applicable'.")

EmphasisCheck(tree, tag) ==
    <<"FORMAT: Use of bold/italic text: '" \o get_text(tree, tag, "", TRUE) \o "'">>

\* Iterating set(acronyms): the distinct acronyms in the order the process's
\* string hashing gives.  order lists every string that can occur.
SetIter(S, order) == SelectSeq(order, LAMBDA x : x \in S)

\* The acronym loop with one test for the whole document: an expansion of
\* any acronym silences the finding of every acronym.
AcronymCheck_AnyExpansion(text, order) ==
    LET acronyms == SetIter(Range(FindAcronyms(text, 1)), order)
    IN  Flatten([k \in DOMAIN acronyms |->
            If(~\E other \in Range(acronyms) : SearchExpansion(text, other),
               "ACRONYM: '" \o acronyms[k] \o "' may not be spelled out on first use.")])

AcronymCheck(text, order) ==
    LET acronyms == SetIter(Range(FindAcronyms(text, 1)), order)
    IN  Flatten([k \in DOMAIN acronyms |->
            If(~SearchExpansion(text, acronyms[k]),
               "ACRONYM: '" \o acronyms[k] \o "' may not be spelled out on first use.")])

DateCheck(text) ==
    If(~SearchDate(text),
       "STYLE: No date found in GOV.UK format (e.g., '21 September 2025').")

\* The hyphen check as a test for the substring " - ".
HyphenCheck_SpacesOnly(text) ==
    If(Contains(text, " - "), "STYLE: Hyphen used where em dash may be appropriate.")

HyphenCheck(text) ==
    If(SearchSpacedHyphen(text), "STYLE: Hyphen used where em dash may be appropriate.")

SlashCheck(text) == If(Contains(text, "/"), "STYLE: Slash '/' found in text.")

LinkInTableCheck(tree, table) ==
    If(HasDescendant(tree, table, "a"), "STYLE: Link found inside a table.")

HeadingCheck(tree, title) ==
    If(~SearchActiveVerb(get_text(tree, title, "", FALSE)),
       "STYLE: Title may not use active language: '"
           \o get_text(tree, title, "", TRUE) \o "'")

\* What a call gives: a returned finding list, or an exception raised.
Returned(findings) == [exc |-> "", findings |-> findings]
Raised(exc) == [exc |-> exc, findings |-> <<>>]

\* The findings of the sixteen checks of check_html, check by check in
\* the order of the statements.
HtmlChecks(tree, order) ==
    LET text == get_text(tree, 0, "\n", FALSE)
        lis == find_all(tree, {"li"})
        bullet_points == [k \in DOMAIN lis |-> get_text(tree, lis[k], "", FALSE)]
        uls == find_all(tree, {"ul"})
        anchors == find_all(tree, {"a"})
        images == find_all(tree, {"img"})
        tds == find_all(tree, {"td"})
        tags == find_all(tree, {"b", "strong", "i", "em"})
        tables == find_all(tree, {"table"})
        titles == find_all(tree, {"h1", "h2", "h3"})
    IN  << Flatten([k \in DOMAIN bullet_points |-> BulletCheck(bullet_points[k])]),
           Flatten([k \in DOMAIN uls |-> LeadInCheck(tree, uls[k])]),
           PleaseCheck(text),
           NegContractionCheck(text),
           DirectionalCheck(text),
           SentenceCheck(text),
           Flatten([k \in DOMAIN anchors |-> LinkCheck(tree, anchors[k])]),
           Flatten([k \in DOMAIN images |-> ImageCheck(tree, text, images[k])]),
           Flatten([k \in DOMAIN tds |-> TableCellCheck(tree, tds[k])]),
           Flatten([k \in DOMAIN tags |-> EmphasisCheck(tree, tags[k])]),
           AcronymCheck(text, order),
           DateCheck(text),
           HyphenCheck(text),
           SlashCheck(text),
           Flatten([k \in DOMAIN tables |-> LinkInTableCheck(tree, tables[k])]),
           Flatten([k \in DOMAIN titles |-> HeadingCheck(tree, titles[k])]) >>

\* check_html with the image loop written before the anchor loop.
check_html_ImagesFirst(tree, order) ==
    LET checks == HtmlChecks(tree, order)
    IN  IF \E i \in 1..Len(tree) :
               tree[i].tag = "li" /\ BulletRaises(get_text(tree, i, "", FALSE))
        THEN Raised("IndexError")
        ELSE Returned(Flatten([checks EXCEPT ![7] = checks[8], ![8] = checks[7]]))

\* check_html on the parsed markup `tree`, in a process whose string hashing
\* orders a set as `order`: the findings of the checks one after the other,
\* unless the bullet loop, the first of them, raises.
check_html(tree, order) ==
    IF \E i \in 1..Len(tree) :
           tree[i].tag = "li" /\ BulletRaises(get_text(tree, i, "", FALSE))
    THEN Raised("IndexError")
    ELSE Returned(Flatten(HtmlChecks(tree, order)))

\* para.text: the texts of the paragraph's runs, one after the other.
ParaText(para) ==
    Join([k \in 1..Len(para.runs) |-> para.runs[k].text], "")

\* check_docx on the paragraphs `doc` of a parsed .docx.
check_docx(doc, order) ==
    LET text == Join([k \in DOMAIN doc |-> ParaText(doc[k])], "\n")
        bullet(para) ==
            IF StartsWith(para.style, "List") THEN DocxBulletCheck(ParaText(para))
            ELSE <<>>
        format(run) ==
            If(run.bold \/ run.italic,
               "FORMAT: Use of bold/italic text: '" \o Strip(run.text) \o "'")
        runs(para) == Flatten([k \in DOMAIN para.runs |-> format(para.runs[k])])
    IN  Returned(
               Flatten([k \in DOMAIN doc |-> bullet(doc[k])])
            \o PleaseCheck(text)
            \o NegContractionCheck(text)
            \o DirectionalCheck(text)
            \o SentenceCheck(text)
            \o Flatten([k \in DOMAIN doc |-> runs(doc[k])])
            \o AcronymCheck(text, order)
            \o DateCheck(text)
            \o HyphenCheck(text)
            \o SlashCheck(text))

----------------------------------------------------------------------------
(* The command line and the upload page.                                   *)

\* str.rfind(c), counted from 1 (0: not found).
RFind(s, c) ==
    LET ps == {i \in 1..Len(s) : Ch(s, i) = c}
    IN  IF ps = {} THEN 0 ELSE SetMax(ps)

\* os.path.splitext(p)[1]: from the last dot of the last path component on,
\* unless only dots precede it there.
splitext(p) ==
    LET sepIndex == RFind(p, "/")
        dotIndex == RFind(p, ".")
    IN  IF dotIndex > sepIndex
            /\ \E k \in (sepIndex + 1)..(dotIndex - 1) : Ch(p, k) # "."
        THEN SubSeq(p, dotIndex, Len(p))
        ELSE ""

NoRun ==
    [by |-> "none", argv |-> <<>>, called |-> "none", exc |-> "",
     findings |-> <<>>, stdout |-> <<>>]

\* main() returning after print(message), no evaluator called.
Exit(argv, message) ==
    [by |-> "main", argv |-> argv, called |-> "none", exc |-> "",
     findings |-> <<>>, stdout |-> <<message>>]

\* main() after the evaluator fn gave `result`: the findings section and the
\* total, or nothing printed when the call raised.
Report(argv, fn, result) ==
    [by |-> "main", argv |-> argv, called |-> fn, exc |-> result.exc,
     findings |-> result.findings,
     stdout |-> IF result.exc # "" THEN <<>>
                ELSE <<"\n--- GOV.UK Style & Content Findings ---\n">>
                     \o result.findings
                     \o <<"\nTotal findings: " \o ToString(Len(result.findings))>>]

ArgCount == 2

\* main() without the os.path.isfile test.
main_NoFileCheck(argv, order) ==
    IF Len(argv) # ArgCount THEN Exit(argv, "Usage: python govuk_checker.py <file>")
    ELSE IF Lower(splitext(argv[2])) \in {".htm", ".html"}
         THEN Report(argv, "check_html", check_html(soup, order))
    ELSE IF Lower(splitext(argv[2])) = ".docx"
         THEN Report(argv, "check_docx", check_docx(paras, order))
    ELSE Exit(argv, "Unsupported file type. Use .htm, .html, or .docx")

\* main() with sys.argv = argv, in a process whose string hashing orders a
\* set as `order`: the run it makes.
main(argv, order) ==
    IF Len(argv) # ArgCount THEN Exit(argv, "Usage: python govuk_checker.py <file>")
    ELSE IF argv[2] \notin files THEN Exit(argv, "File not found.")
    ELSE IF Lower(splitext(argv[2])) \in {".htm", ".html"}
         THEN Report(argv, "check_html", check_html(soup, order))
    ELSE IF Lower(splitext(argv[2])) = ".docx"
         THEN Report(argv, "check_docx", check_docx(paras, order))
    ELSE Exit(argv, "Unsupported file type. Use .htm, .html, or .docx")

\* The temporary copy of an upload: a generated name and the upload's suffix.
TmpPath(name) == "/tmp/tmpk3v9x_2a" \o splitext(name)

\* What the page shows for the findings the script ends with.
Page(name, fn, result) ==
    [by |-> "app", argv |-> <<name>>, called |-> fn, exc |-> result.exc,
     findings |-> result.findings,
     stdout |-> IF result.exc # "" THEN <<>>
                ELSE IF result.findings # <<>>
                THEN <<"Findings">> \o result.findings
                     \o <<"**Total findings:** " \o ToString(Len(result.findings))>>
                ELSE <<"Findings", "No issues found.">>]

\* The script of govuk_checker_app.py for an uploaded file called `name`.
app(name, order) ==
    LET ext == Lower(splitext(TmpPath(name)))
    IN  IF ext \in {".htm", ".html"}
        THEN Page(name, "check_html", check_html(soup, order))
        ELSE IF ext = ".docx"
        THEN Page(name, "check_docx", check_docx(paras, order))
        ELSE Page(name, "none", Returned(<<"Unsupported file type.">>))

\* The acronyms of the documents at hand, and the orders in which a process
\* may iterate a set of them: CPython seeds the hash of a string anew in each
\* process (PYTHONHASHSEED), so each process has an order of its own.
AcronymsAtHand ==
    Range(FindAcronyms(get_text(soup, 0, "\n", FALSE), 1))
    \cup Range(FindAcronyms(Join([k \in 1..Len(paras) |-> ParaText(paras[k])], "\n"), 1))

Orders(S) ==
    {f \in [1..Cardinality(S) -> S] : \A i, j \in DOMAIN f : f[i] = f[j] => i = j}

HashOrders == Orders(AcronymsAtHand)

\* One run of `python govuk_checker.py ...`: a new process.
Main(argv) ==
    \E order \in HashOrders :
        /\ last' = main(argv, order)
        /\ prev' = last
        /\ UNCHANGED <<files, soup, paras, appHash>>

\* One upload to the running Streamlit application.
Upload(name) ==
    /\ last' = app(name, appHash)
    /\ prev' = last
    /\ UNCHANGED <<files, soup, paras, appHash>>

----------------------------------------------------------------------------
(* Documents.  A block is a piece of parsed markup: its nodes in document  *)
(* order, parents counted inside the block (0: the block's own parent).    *)

Text(s) == <<[tag |-> TextTag, parent |-> 0, str |-> s, attrs |-> {}]>>

\* The parser makes no text node of no text.
TextOrNone(s) == IF s = "" THEN <<>> ELSE Text(s)

Elem(tag, attrs, content) ==
    <<[tag |-> tag, parent |-> 0, str |-> "", attrs |-> attrs]>>
    \o [i \in 1..Len(content) |-> [content[i] EXCEPT !.parent = @ + 1]]

RECURSIVE Siblings(_)
Siblings(blocks) ==
    IF Len(blocks) = 0 THEN <<>>
    ELSE LET front == Siblings(SubSeq(blocks, 1, Len(blocks) - 1))
             block == blocks[Len(blocks)]
         IN  front \o [i \in 1..Len(block) |->
                          [block[i] EXCEPT !.parent = IF @ = 0 THEN 0 ELSE @ + Len(front)]]

Run(text) == [text |-> text, bold |-> FALSE, italic |-> FALSE]
Para(style, text) == [style |-> style, runs |-> <<Run(text)>>]

SeqsUpTo(S, n) == UNION {[1..k -> S] : k \in 0..n}

Prog == "govuk_checker.py"
HtmlArgv == <<Prog, "page.html">>
DocxArgv == <<Prog, "report.docx">>

\* The files of the working directory.
FilesAtHand ==
    {"page.html", "PAGE.HTM", "index.htm", "report.docx", "Report.DOCX",
     "notes.txt", "README", ".html", "site.html/robots", "page.html.bak"}

\* The state before any run, for the markup `tree` and the paragraphs `doc`.
Start(tree, doc) ==
    /\ files = FilesAtHand
    /\ soup = tree
    /\ paras = doc
    /\ appHash \in HashOrders
    /\ last = NoRun
    /\ prev = NoRun

----------------------------------------------------------------------------
(* Lists: the same item texts as a markup list and as .docx list            *)
(* paragraphs, each under a lead-in that ends with a colon.                *)

MaxItems == 2

ItemTexts ==
    {"", " ", "\n  ", "buy milk", "Buy milk.", " buy milk. ", "Done", "1 egg."}

ListMarkup(items) ==
    Siblings(<<Elem("p", {}, Text("Shopping list:")),
               Elem("ul", {}, Siblings([k \in 1..Len(items) |->
                                           Elem("li", {}, TextOrNone(items[k]))]))>>)

ListParas(items) ==
    <<Para("Normal", "Shopping list:")>>
    \o [k \in 1..Len(items) |-> Para("List Bullet", items[k])]

InitBullets ==
    \E items \in SeqsUpTo(ItemTexts, MaxItems) :
        Start(ListMarkup(items), ListParas(items))

NextBullets == Main(HtmlArgv) \/ Main(DocxArgv)

SpecBullets == InitBullets /\ [][NextBullets]_vars

\* The texts of the list items of the markup at hand, in document order.
ItemTextsOf(tree) ==
    [k \in 1..Len(find_all(tree, {"li"})) |->
        get_text(tree, find_all(tree, {"li"})[k], "", FALSE)]

Count(seq, x) == Cardinality({i \in DOMAIN seq : seq[i] = x})

FullStopFinding(bp) == "BULLET: Does not end with a full stop: '" \o Strip(bp) \o "'"

\* C2: for every list item of the markup (items of empty or blank text
\* included) check_html returns a list that holds exactly one full-stop
\* finding for the item if its trimmed text does not end with ".", and none
\* if it does; so the list holds the item's finding as many times as there
\* are items of that trimmed text.
C2_FullStopPerItem ==
    last.called = "check_html" =>
        /\ last.exc = ""
        /\ \A k \in DOMAIN ItemTextsOf(soup) :
              LET bp == ItemTextsOf(soup)[k]
              IN  Count(last.findings, FullStopFinding(bp))
                  = Cardinality({j \in DOMAIN ItemTextsOf(soup) :
                        /\ Strip(ItemTextsOf(soup)[j]) = Strip(bp)
                        /\ ~EndsWith(Strip(bp), ".")})

\* The findings of the bullet text check in a finding list.
BulletTextFindings(findings) ==
    SelectSeq(findings, LAMBDA f : StartsWith(f, "BULLET: Does not "))

\* C8: on the same item texts (empty and blank ones included) check_docx and
\* check_html both complete and give the same full-stop and capitalization
\* findings.
C8_SameBulletCheck ==
    {prev.called, last.called} = {"check_html", "check_docx"} =>
        /\ prev.exc = ""
        /\ last.exc = ""
        /\ BulletTextFindings(prev.findings) = BulletTextFindings(last.findings)

----------------------------------------------------------------------------
(* The end-to-end example: one list item "buy milk" in a <ul> that no text *)
(* ending with a colon precedes, one image without alt text, "please" once. *)

PleaseTexts == {"please", "Yes please", "Please help", "Two, please"}
NoAltAttrs == {{}, {<<"alt", "">>}, {<<"src", "cart.png">>}}
Intros == {"", "Shopping list"}

EndToEndParts(please, imgattrs) ==
    <<Elem("ul", {}, Elem("li", {}, Text("buy milk"))),
      Elem("img", imgattrs, <<>>),
      Elem("p", {}, Text(please))>>

EndToEndMarkup(intro, please, imgattrs, order) ==
    Siblings(<<IF intro = "" THEN <<>> ELSE Elem("p", {}, Text(intro))>>
             \o [k \in 1..3 |-> EndToEndParts(please, imgattrs)[order[k]]])

InitEndToEnd ==
    \E intro \in Intros, please \in PleaseTexts, imgattrs \in NoAltAttrs,
       order \in Orders(1..3) :
        Start(EndToEndMarkup(intro, please, imgattrs, order), <<>>)

NextEndToEnd == \E argv \in {HtmlArgv, <<Prog, "PAGE.HTM">>} : Main(argv)

SpecEndToEnd == InitEndToEnd /\ [][NextEndToEnd]_vars

EndToEndFindings ==
    {"BULLET: Does not end with a full stop: 'buy milk'",
     "BULLET: Does not begin with a capital letter: 'buy milk'",
     "BULLET: List may be missing a lead-in sentence.",
     "IMAGE: Image found without alt text.",
     "LANGUAGE: Found instance of the word 'please'."}

NoDateFinding == "STYLE: No date found in GOV.UK format (e.g., '21 September 2025')."

\* C1, as claimed: on the example document check_html returns the five
\* findings named, and the total, as main prints it, is 5.
C1_TotalIsFive ==
    last.called = "check_html" =>
        /\ EndToEndFindings \subseteq Range(last.findings)
        /\ Len(last.findings) = 5
        /\ last.stdout[Len(last.stdout)] = "\nTotal findings: 5"

\* C1, amended: on the example document check_html returns each of the five
\* findings named once and, the document holding no date, the STYLE finding
\* of the date check: the total, as main prints it, is 6.
C1_TotalIsSix ==
    last.called = "check_html" =>
        /\ last.exc = ""
        /\ \A f \in EndToEndFindings \cup {NoDateFinding} : Count(last.findings, f) = 1
        /\ Len(last.findings) = 6
        /\ last.stdout[Len(last.stdout)] = "\nTotal findings: 6"

C1_Witness ==
    /\ last.by = "main"
    /\ last.called = "check_html"
    /\ EndToEndFindings \subseteq Range(last.findings)
    /\ Len(last.stdout) > 1

----------------------------------------------------------------------------
(* Images: a body text, possibly broken over two text nodes, and images    *)
(* with and without alt attributes.                                        *)

MaxImages == 3

\* "none": the image has no alt attribute.
Alts == {"none", "", " ", "Annual report", "Q3 chart", "chart"}

Bodies ==
    {<<>>, <<"The Annual report 2025">>, <<"See the Q3", "chart below">>,
     <<"annual report, Q3 chart">>}

ImageMarkup(body, alts) ==
    Siblings([k \in 1..Len(body) |-> Elem("p", {}, Text(body[k]))]
             \o [k \in 1..Len(alts) |->
                    Elem("img", IF alts[k] = "none" THEN {<<"src", "a.png">>}
                                ELSE {<<"src", "a.png">>, <<"alt", alts[k]>>}, <<>>)])

InitImages ==
    \E body \in Bodies, alts \in SeqsUpTo(Alts, MaxImages) :
        Start(ImageMarkup(body, alts), <<>>)

NextImages == Main(HtmlArgv)

SpecImages == InitImages /\ [][NextImages]_vars

\* The images of the markup at hand, and the alt text of one: "" when the
\* attribute is absent or empty.
ImagesAtHand == {i \in 1..Len(soup) : soup[i].tag = "img"}
AltOf(i) ==
    IF \E kv \in soup[i].attrs : kv[1] = "alt" /\ kv[2] # ""
    THEN (CHOOSE kv \in soup[i].attrs : kv[1] = "alt")[2]
    ELSE ""

ExtractedText == get_text(soup, 0, "\n", FALSE)

NoAltFinding == "IMAGE: Image found without alt text."
NotDescribedFinding(alt) == "IMAGE: Alt text not described in body: '" \o alt \o "'"

\* C4: of a list check_html returns, the "without alt text" findings are as
\* many as the images whose alt is absent or empty; the "not described"
\* findings naming an alt text are as many as the images with that alt text
\* if it is no substring of Extracted Text, and none if it is; and there are
\* no other IMAGE findings: each image yields the one finding of its case,
\* or none, never both.
C4_ImageFindings ==
    (last.called = "check_html" /\ last.exc = "") =>
        /\ Count(last.findings, NoAltFinding)
               = Cardinality({i \in ImagesAtHand : AltOf(i) = ""})
        /\ \A i \in ImagesAtHand :
              AltOf(i) # "" =>
                  Count(last.findings, NotDescribedFinding(AltOf(i)))
                      = IF Contains(ExtractedText, AltOf(i)) THEN 0
                        ELSE Cardinality({j \in ImagesAtHand : AltOf(j) = AltOf(i)})
        /\ Cardinality({k \in DOMAIN last.findings : StartsWith(last.findings[k], "IMAGE: ")})
               = Cardinality({i \in ImagesAtHand :
                     AltOf(i) = "" \/ ~Contains(ExtractedText, AltOf(i))})

\* All three cases in one evaluated document.
C4_Witness ==
    /\ last.called = "check_html"
    /\ last.exc = ""
    /\ \E i, j \in ImagesAtHand :
          /\ AltOf(i) = ""
          /\ AltOf(j) # ""
          /\ Contains(ExtractedText, AltOf(j))
    /\ \E i \in ImagesAtHand : AltOf(i) # "" /\ ~Contains(ExtractedText, AltOf(i))

----------------------------------------------------------------------------
(* Links: anchors with the texts of the examples and of the border cases.  *)

MaxLinks == 2

LinkTexts ==
    {"Click", "more information here", "Read the report", " Download ", "",
     "re-read it", "reader", "View\nall", "contact_us now"}

LinkMarkup(texts) ==
    Siblings([k \in 1..Len(texts) |->
                 Elem("p", {}, Elem("a", {<<"href", "#">>}, TextOrNone(texts[k])))])

InitLinks == \E texts \in SeqsUpTo(LinkTexts, MaxLinks) : Start(LinkMarkup(texts), <<>>)

NextLinks == Main(HtmlArgv)

SpecLinks == InitLinks /\ [][NextLinks]_vars

\* The trimmed link texts of the anchors at hand, by anchor.
AnchorsAtHand == {i \in 1..Len(soup) : soup[i].tag = "a"}
LinkTextOf(i) == Strip(get_text(soup, i, "", FALSE))

\* A text that is one word: not empty, and no white space inside it.
IsOneWord(t) == t # "" /\ \A i \in 1..Len(t) : Ch(t, i) \notin WhiteSpace

\* The verb occurs in t as a whole word, in any case: an occurrence with no
\* letter, digit or underscore right before or right after it.
HasWholeWord(t, verb) ==
    \E i \in 1..(Len(t) - Len(verb) + 1) :
        /\ Lower(SubSeq(t, i, i + Len(verb) - 1)) = verb
        /\ (i = 1 \/ ~IsWordChar(Ch(t, i - 1)))
        /\ (i + Len(verb) > Len(t) \/ ~IsWordChar(Ch(t, i + Len(verb))))

HasActiveVerb(t) == \E k \in DOMAIN ActiveVerbs : HasWholeWord(t, ActiveVerbs[k])

OneWordFinding(t) == "LINK: Link text is only one word: '" \o t \o "'"
NotActiveFinding(t) == "LINK: Link text may not be descriptive or active: '" \o t \o "'"

\* C5: of a list check_html returns, the "only one word" findings naming a
\* link text are as many as the anchors of that trimmed text if it is a
\* single word, else none; the "may not be descriptive or active" findings
\* naming it are as many as those anchors if it holds no active verb as a
\* whole word, else none: the one check does not depend on the other.
C5_LinkFindings ==
    (last.called = "check_html" /\ last.exc = "") =>
        \A i \in AnchorsAtHand :
            LET same == Cardinality({j \in AnchorsAtHand : LinkTextOf(j) = LinkTextOf(i)})
            IN  /\ Count(last.findings, OneWordFinding(LinkTextOf(i)))
                       = IF IsOneWord(LinkTextOf(i)) THEN same ELSE 0
                /\ Count(last.findings, NotActiveFinding(LinkTextOf(i)))
                       = IF HasActiveVerb(LinkTextOf(i)) THEN 0 ELSE same

\* Two of the examples in one evaluated document: "Click" has the
\* single-word finding, "Read the report" has neither finding.
C5_Witness ==
    /\ last.called = "check_html"
    /\ last.exc = ""
    /\ {LinkTextOf(i) : i \in AnchorsAtHand} = {"Click", "Read the report"}
    /\ OneWordFinding("Click") \in Range(last.findings)
    /\ OneWordFinding("Read the report") \notin Range(last.findings)
    /\ NotActiveFinding("Read the report") \notin Range(last.findings)

----------------------------------------------------------------------------
(* Running text: the same pieces as the paragraphs of a markup document    *)
(* and of a .docx, so that both have the same Extracted Text.              *)

TextMarkup(pieces) ==
    Siblings([k \in 1..Len(pieces) |-> Elem("p", {}, TextOrNone(pieces[k]))])

TextParas(pieces) == [k \in 1..Len(pieces) |-> Para("Normal", pieces[k])]

NextText == Main(HtmlArgv) \/ Main(DocxArgv)

\* The Extracted Text of the latest evaluation.
TextOfLast ==
    IF last.called = "check_html" THEN get_text(soup, 0, "\n", FALSE)
    ELSE Join([k \in 1..Len(paras) |-> ParaText(paras[k])], "\n")

Evaluated == last.called \in {"check_html", "check_docx"} /\ last.exc = ""

----------------------------------------------------------------------------
(* Acronyms, expanded and not.                                             *)

MaxAcronymPieces == 2

AcronymPieces ==
    {"AB (", "AB ()", "the AB (alpha beta) and CD", "CD (x", "xAB (y) Ab"}

InitAcronyms ==
    \E pieces \in SeqsUpTo(AcronymPieces, MaxAcronymPieces) :
        Start(TextMarkup(pieces), TextParas(pieces))

SpecAcronyms == InitAcronyms /\ [][NextText]_vars

AcronymFinding(acronym) == "ACRONYM: '" \o acronym \o "' may not be spelled out on first use."

\* The distinct all-uppercase tokens, two letters or more, of a text.
UpperTokens(text) == Range(FindAcronyms(text, 1))

\* C7, as claimed: a returned list holds exactly one ACRONYM finding for a
\* token if "TOKEN (" occurs nowhere in Extracted Text, and none if it does.
C7_OpeningParenthesisSuffices ==
    Evaluated =>
        \A token \in UpperTokens(TextOfLast) :
            Count(last.findings, AcronymFinding(token))
                = IF Contains(TextOfLast, token \o " (") THEN 0 ELSE 1

\* The token, starting a word, is followed in text by a space and a complete
\* parenthesis: "(", one or more characters other than ")", and ")".
HasParenthetical(text, token) ==
    \E p \in 1..Len(text) : \E q \in (p + Len(token) + 3)..Len(text) :
        /\ SubSeq(text, p, p + Len(token) + 1) = token \o " ("
        /\ (p = 1 \/ ~IsWordChar(Ch(text, p - 1)))
        /\ Ch(text, q) = ")"
        /\ \A m \in (p + Len(token) + 2)..(q - 1) : Ch(text, m) # ")"

\* C7, amended: a returned list holds exactly one ACRONYM finding for a
\* token if no occurrence of the token that starts a word is followed by a
\* space and a complete, non-empty parenthesis "(...)" in Extracted Text,
\* and none if one is; the test is made per token.
C7_ParentheticalPerAcronym ==
    Evaluated =>
        \A token \in UpperTokens(TextOfLast) :
            Count(last.findings, AcronymFinding(token))
                = IF HasParenthetical(TextOfLast, token) THEN 0 ELSE 1

\* One acronym expanded and another not, in one evaluated text.
C7_Witness ==
    /\ Evaluated
    /\ HasParenthetical(TextOfLast, "AB")
    /\ ~HasParenthetical(TextOfLast, "CD")
    /\ AcronymFinding("CD") \in Range(last.findings)
    /\ AcronymFinding("AB") \notin Range(last.findings)

\* C3: two evaluations of the same document by the same evaluator give the
\* same finding list, the findings in the same order.
C3_Deterministic ==
    (prev.called = last.called /\ last.called \in {"check_html", "check_docx"}) =>
        /\ prev.exc = last.exc
        /\ prev.findings = last.findings

----------------------------------------------------------------------------
(* Hyphens between spaces, tabs and the line breaks of Extracted Text.     *)

MaxHyphenPieces == 3

HyphenPieces == {"a - b", "well-known", "-", "a -", "a\t-\tb", "b"}

InitHyphens ==
    \E pieces \in SeqsUpTo(HyphenPieces, MaxHyphenPieces) :
        Start(TextMarkup(pieces), TextParas(pieces))

SpecHyphens == InitHyphens /\ [][NextText]_vars

HyphenFinding == "STYLE: Hyphen used where em dash may be appropriate."

\* C10, as claimed: a returned list holds the hyphen finding once if
\* Extracted Text holds space, hyphen, space, and not at all otherwise.
C10_SpaceHyphenSpace ==
    Evaluated =>
        Count(last.findings, HyphenFinding)
            = IF Contains(TextOfLast, " - ") THEN 1 ELSE 0

\* A hyphen with a white-space character (a space, a tab, a line break, ...)
\* right before it and right after it.
HasHyphenInWhiteSpace(text) ==
    \E i \in 2..(Len(text) - 1) :
        /\ Ch(text, i) = "-"
        /\ Ch(text, i - 1) \in WhiteSpace
        /\ Ch(text, i + 1) \in WhiteSpace

\* C10, amended: a returned list holds the hyphen finding once if Extracted
\* Text holds a hyphen with a white-space character of any kind on each of
\* its sides, the line breaks between paragraphs included, and not at all
\* otherwise.
C10_HyphenInWhiteSpace ==
    Evaluated =>
        Count(last.findings, HyphenFinding)
            = IF HasHyphenInWhiteSpace(TextOfLast) THEN 1 ELSE 0

\* A hyphen that only line breaks surround, and the finding for it.
C10_Witness ==
    /\ Evaluated
    /\ ~Contains(TextOfLast, " - ")
    /\ Contains(TextOfLast, "\n-\n")
    /\ HyphenFinding \in Range(last.findings)

----------------------------------------------------------------------------
(* Pages that set off every check of check_html, pieces in any order.      *)

MaxBlocks == 2

LongSentence == "a a a a a a a a a a a a a a a a a a a a a a a a a a a"

PageBlocks ==
    { Elem("ul", {}, Siblings(<<Elem("li", {}, Text("buy milk")),
                                Elem("li", {}, Text("Eggs"))>>)),
      Elem("p", {}, Text("Yes please, don~t look above or below.")),
      Siblings(<<Elem("h1", {}, Text("Long text")), Elem("p", {}, Text(LongSentence))>>),
      Siblings(<<Elem("a", {}, Text("Click")), Elem("img", {}, <<>>)>>),
      Elem("table", {}, Siblings(<<Elem("td", {}, <<>>),
                                   Elem("td", {}, Elem("a", {}, Text("view it here")))>>)),
      Siblings(<<Elem("b", {}, Text(" Bold ")),
                 Elem("img", {<<"alt", "Logo">>}, <<>>),
                 Elem("h2", {}, Text("Title"))>>),
      Elem("p", {}, Siblings(<<Text("AB and/or CD - "), Elem("em", {}, Text("x"))>>)),
      Elem("p", {}, Text("On 1 May 2025")) }

InitPages ==
    \E blocks \in SeqsUpTo(PageBlocks, MaxBlocks) : Start(Siblings(blocks), <<>>)

NextPages == Main(HtmlArgv)

SpecPages == InitPages /\ [][NextPages]_vars

\* How the findings of each check begin, by the place of the check in the
\* fixed order: bullet text, list lead-in, "please", negative contractions,
\* directional words, sentence length, link quality, image alt text, table
\* cells, emphasis, acronyms, date presence, hyphen spacing, slash usage,
\* link-in-table, heading language.
CheckPrefixes ==
    <<"BULLET: Does not ", "BULLET: List may be missing", "LANGUAGE: Found instance",
      "LANGUAGE: Found negative contraction", "LANGUAGE: Found use of the word",
      "LANGUAGE: Long sentence", "LINK: ", "IMAGE: ", "TABLE: ", "FORMAT: ",
      "ACRONYM: ", "STYLE: No date", "STYLE: Hyphen", "STYLE: Slash",
      "STYLE: Link found inside a table", "STYLE: Title may not">>

CheckOf(finding) ==
    CHOOSE k \in DOMAIN CheckPrefixes : StartsWith(finding, CheckPrefixes[k])

\* A set of node indices in document order.
RECURSIVE InDocumentOrder(_)
InDocumentOrder(S) ==
    IF S = {} THEN <<>> ELSE <<SetMin(S)>> \o InDocumentOrder(S \ {SetMin(S)})

\* The elements a per-element check looks at, and what it finds at one.
ElementTags(check) ==
    CASE check = 1 -> {"li"}
      [] check = 2 -> {"ul"}
      [] check = 7 -> {"a"}
      [] check = 8 -> {"img"}
      [] check = 9 -> {"td"}
      [] check = 10 -> {"b", "strong", "i", "em"}
      [] check = 15 -> {"table"}
      [] check = 16 -> {"h1", "h2", "h3"}

FoundAt(check, i) ==
    CASE check = 1 -> BulletCheck(get_text(soup, i, "", FALSE))
      [] check = 2 -> LeadInCheck(soup, i)
      [] check = 7 -> LinkCheck(soup, i)
      [] check = 8 -> ImageCheck(soup, ExtractedText, i)
      [] check = 9 -> TableCellCheck(soup, i)
      [] check = 10 -> EmphasisCheck(soup, i)
      [] check = 15 -> LinkInTableCheck(soup, i)
      [] check = 16 -> HeadingCheck(soup, i)

PerElementChecks == {1, 2, 7, 8, 9, 10, 15, 16}

\* C9: in a list check_html returns, no finding of a later check precedes a
\* finding of an earlier check of the fixed order, and the findings of each
\* per-element check are those of its elements in document order.
C9_RuleOrder ==
    (last.called = "check_html" /\ last.exc = "") =>
        /\ \A p, q \in DOMAIN last.findings :
              p < q => CheckOf(last.findings[p]) <= CheckOf(last.findings[q])
        /\ \A check \in PerElementChecks :
              LET elements == InDocumentOrder({i \in 1..Len(soup) :
                                  soup[i].tag \in ElementTags(check)})
              IN  SelectSeq(last.findings, LAMBDA f : CheckOf(f) = check)
                  = Flatten([k \in DOMAIN elements |-> FoundAt(check, elements[k])])

\* Findings of a later check whose elements come first in the document:
\* the table (cells, link-in-table) before the list (bullet text, lead-in).
C9_Witness ==
    /\ last.called = "check_html"
    /\ last.exc = ""
    /\ Len(soup) > 0
    /\ soup[1].tag = "table"
    /\ \E i \in 1..Len(soup) : soup[i].tag = "ul"
    /\ Len(last.findings) > 0
    /\ CheckOf(last.findings[1]) = 1
    /\ \E k \in DOMAIN last.findings : CheckOf(last.findings[k]) = 15

----------------------------------------------------------------------------
(* The command line: any argument list, files there and not there.         *)

Documents ==
    { <<<<>>, <<>>>>,
      <<EndToEndMarkup("", "please", {}, <<1, 2, 3>>), ListParas(<<"buy milk">>)>>,
      <<ListMarkup(<<" ">>), ListParas(<<" ">>)>>,
      <<TextMarkup(<<"AB and CD">>), TextParas(<<"AB and CD">>)>> }

Argvs ==
    {<<Prog>>, <<Prog, "page.html", "report.docx">>}
    \cup {<<Prog, path>> : path \in FilesAtHand \cup {"missing.html"}}

UploadNames == {"upload.html", "Upload.HTM", "upload.docx"}

Init ==
    \E d \in Documents, there \in {FilesAtHand, {"page.html", "notes.txt"}} :
        /\ files = there
        /\ soup = d[1]
        /\ paras = d[2]
        /\ appHash \in HashOrders
        /\ last = NoRun
        /\ prev = NoRun

Next ==
    \/ \E argv \in Argvs : Main(argv)
    \/ \E name \in UploadNames : Upload(name)

Spec == Init /\ [][Next]_vars

Recognized == {".htm", ".html", ".docx"}

\* C6: main with one path argument, when the path is no existing file or
\* its lower-cased extension is none of .htm, .html, .docx, prints exactly
\* one message, calls no evaluator and prints no findings section and no
\* total; it calls check_html only for an existing .htm or .html file and
\* check_docx only for an existing .docx file, and then it does call them.
C6_FailureSurface ==
    (last.by = "main" /\ Len(last.argv) = 2) =>
        LET path == last.argv[2]
            ext == Lower(splitext(path))
        IN  /\ (path \notin files \/ ext \notin Recognized) =>
                  /\ last.called = "none"
                  /\ Len(last.stdout) = 1
                  /\ last.stdout[1] \in
                         {"File not found.",
                          "Unsupported file type. Use .htm, .html, or .docx"}
            /\ last.called = "check_html" <=> (path \in files /\ ext \in {".htm", ".html"})
            /\ last.called = "check_docx" <=> (path \in files /\ ext = ".docx")

\* A file that is there, named like markup but without an extension, and a
\* run on it that printed the one message.
C6_Witness ==
    /\ last.by = "main"
    /\ last.argv = <<Prog, ".html">>
    /\ ".html" \in files
    /\ last.called = "none"
    /\ last.stdout = <<"Unsupported file type. Use .htm, .html, or .docx">>

====
